---- MODULE Spec2Model ----
(***************************************************************************)
(* Model of scripts/migration/migrate_historian_data.py: one operator runs *)
(* main() against a PostgreSQL database, possibly several times in a row.  *)
(* The database outlives a process run; everything else is per run.        *)
(***************************************************************************)
EXTENDS Bags, FiniteSets, Integers, Sequences, TLC

\* ------------------------------------------------------------------ bounds
MaxRows == 4        \* rows of the source table before the first run
MaxRuns == 2        \* process runs of main() in one behaviour
MaxFailures == 1    \* database errors injected in one behaviour
MaxCloses == 3      \* calls of close() on one HistorianMigration
WidthRows == 2      \* rows of the source table when --batch-size varies

\* ------------------------------------------------------- program constants
batch_interval == 86400000

\* Python's None: MIN()/MAX() of an empty table, an unset attribute.
None == -1

DefaultBatchSize == 100000      \* --batch-size when not given
BatchSizes == {DefaultBatchSize, 43200000, 86400000}

DefaultTable == "sqlth_1_data"
OtherTable == "historian_ts"
TableNames == {DefaultTable, OtherTable}

\* ------------------------------------------------------------------ inputs
Tags == {1, 2}
\* 1000, 90000000 and 90000001 are the timestamps of the spec's scenario;
\* 86401000 = 1000 + batch_interval is a window boundary; 259201000 lies
\* three windows after 1000.
TStamps == {1000, 86401000, 90000000, 90000001, 259201000}

\* A row: <<tagid, t_stamp>>.  The five value columns (intvalue, floatvalue,
\* stringvalue, datevalue, dataintegrity) travel with the row untouched.
\* Tag 1 reports at every timestamp, tag 2 at one of them, so that rows of
\* different tags share a t_stamp.
Rows == ({1} \X TStamps) \cup {<<2, 90000000>>}
tagid(r) == r[1]
t_stamp(r) == r[2]

\* Command lines: no flag, --no-backup, --validate-only (which is tested
\* first, so --no-backup adds nothing to it).
FlagChoices == {<<FALSE, FALSE>>, <<TRUE, FALSE>>, <<FALSE, TRUE>>}

\* Pre-existing rows a target table may hold before the first run.
PreTables == {{}, {<<2, 90000000>>}}

VARIABLES
    db,             \* committed contents: table name -> bag of rows
    db0,            \* db before the first run (never changes)
    unique,         \* the tables carry a unique constraint on (tagid, t_stamp)
    backups,        \* backup tables created so far: [name, rows, created]
    args,           \* parsed command line of the process
    config,         \* source_config and target_config of the HistorianMigration
    run,            \* number of the process run
    pc,             \* position of the process
    source_conn,    \* connection ids, None when not connected
    target_conn,
    closed,         \* connection id -> number of times it was closed
    conn_open,      \* the connections that are established and not closed
    close_calls,    \* calls of HistorianMigration.close() so far
    pending,        \* rows inserted on target_conn and not yet committed
    min_ts, max_ts, current_ts, end_ts, total_migrated, batch_num,
    records,        \* rows fetched by migrate_batch
    result,         \* value returned by migrate_all, None before it returns
    report,         \* what validate_migration logged, <<>> before it ran
    exit_code,      \* None while running
    failures,       \* database errors injected so far
    windows,        \* log: <<start_ts, end_ts>> of each migrate_batch call of the run
    stages,         \* log: stages of main() executed in the run
    pre_count,      \* rows in the target table when migrate_all was entered
    completed,      \* migrate_all calls that returned, over all runs
    abort_batch,    \* batch_num of the batch a run last died in, 0 if none
    abort_sent,     \* rows of that batch sent and not committed when it died
    reads,          \* this run's migrate_batch results, one per returned call
    returned        \* the results of the migrate_all calls that returned

vars == <<db, db0, config, unique, backups, args, run, pc, source_conn, target_conn,
          closed, conn_open, close_calls, pending, min_ts, max_ts, current_ts, end_ts, total_migrated,
          batch_num, records, result, report, exit_code, failures, windows,
          stages, pre_count, completed, abort_batch, abort_sent, reads, returned>>

locals == <<min_ts, max_ts, current_ts, end_ts, total_migrated, batch_num, records>>
conns == <<source_conn, target_conn, closed, conn_open, close_calls>>
hist == <<windows, stages, pre_count, completed, abort_batch, abort_sent, reads, returned>>

\* ----------------------------------------------------------------- helpers
Min(a, b) == IF a <= b THEN a ELSE b

RECURSIVE SetMin(_)
SetMin(S) == LET x == CHOOSE y \in S : TRUE
             IN IF S = {x} THEN x ELSE Min(x, SetMin(S \ {x}))

RECURSIVE SetMax(_)
SetMax(S) == LET x == CHOOSE y \in S : TRUE
             IN IF S = {x} THEN x
                ELSE LET m == SetMax(S \ {x}) IN IF x >= m THEN x ELSE m

\* SELECT COUNT(*)
Count(table) == BagCardinality(table)

\* SELECT COUNT(DISTINCT tagid)
CountDistinctTags(table) == Cardinality({tagid(r) : r \in BagToSet(table)})

\* SELECT MIN(t_stamp) / MAX(t_stamp): NULL on an empty table
MinTs(table) == IF BagToSet(table) = {} THEN None
                ELSE SetMin({t_stamp(r) : r \in BagToSet(table)})
MaxTs(table) == IF BagToSet(table) = {} THEN None
                ELSE SetMax({t_stamp(r) : r \in BagToSet(table)})

\* Python's a < b raises TypeError when an operand is None.
LtRaises(a, b) == a = None \/ b = None

\* -------------------------------------------------------------- migrate_batch
\* WHERE t_stamp >= %s AND t_stamp < %s
InWindow(r, lo, hi) == t_stamp(r) >= lo /\ t_stamp(r) < hi

SelectWindow(table, lo, hi) ==
    LET hit == {r \in BagToSet(table) : InWindow(r, lo, hi)}
    IN [r \in hit |-> table[r]]

\* ORDER BY t_stamp: every list of the rows of the bag in ascending t_stamp;
\* the order among rows of equal t_stamp is the server's choice.
RECURSIVE OrderByTs(_)
OrderByTs(b) ==
    IF BagToSet(b) = {} THEN {<<>>}
    ELSE LET m == SetMin({t_stamp(r) : r \in BagToSet(b)})
             firsts == {r \in BagToSet(b) : t_stamp(r) = m}
         IN UNION {{<<r>> \o s : s \in OrderByTs(b (-) SetToBag({r}))} : r \in firsts}

\* Faulty variant of Conflicts: an INSERT without the ON CONFLICT clause.
ConflictsNever(r, existing, uniq) == FALSE

\* ON CONFLICT DO NOTHING: the row is skipped when inserting it would violate
\* a unique constraint of the table; without a constraint nothing conflicts.
Conflicts(r, existing, uniq) ==
    uniq /\ \E e \in BagToSet(existing) : tagid(e) = tagid(r) /\ t_stamp(e) = t_stamp(r)

\* Faulty variant of ExecuteMany: conflicts are looked for among the rows of the
\* batch only, not among the rows the table already holds.
RECURSIVE ExecuteManyBatchOnly(_, _, _, _)
ExecuteManyBatchOnly(recs, committed, pend, uniq) ==
    IF recs = <<>> THEN pend
    ELSE LET r == Head(recs)
             p2 == IF Conflicts(r, pend, uniq)
                   THEN pend ELSE pend (+) SetToBag({r})
         IN ExecuteManyBatchOnly(Tail(recs), committed, p2, uniq)

\* executemany(insert_query, records): the rows still uncommitted afterwards
RECURSIVE ExecuteMany(_, _, _, _)
ExecuteMany(recs, committed, pend, uniq) ==
    IF recs = <<>> THEN pend
    ELSE LET r == Head(recs)
             p2 == IF Conflicts(r, committed (+) pend, uniq)
                   THEN pend ELSE pend (+) SetToBag({r})
         IN ExecuteMany(Tail(recs), committed, p2, uniq)

\* Faulty variant of WindowEnd: the last window is not clipped to max_ts.
WindowEndUnclipped(cur, hi) == cur + batch_interval

\* end_ts = min(current_ts + batch_interval, max_ts)
WindowEnd(cur, hi) == Min(cur + batch_interval, hi)

\* while current_ts < max_ts
LoopCond(cur, hi) == cur < hi

\* Faulty variant of MigrateBatchReturn: the rows actually inserted.
MigrateBatchReturnsInserted(recs, inserted) == Count(inserted)

\* migrate_batch: return len(records), the rows fetched from the source
MigrateBatchReturn(recs, inserted) == Len(recs)

\* ------------------------------------------------------------ transactions
\* Faulty variant of Commit: the written rows replace the table.
CommitReplaces(table, pend) == pend

\* connection.commit(): the rows inserted in the open transaction join the
\* committed table; INSERT is the only statement the program sends.
Commit(table, pend) == table (+) pend

\* Faulty variant of CloseUncommitted: closing commits the open transaction.
CloseCommits(table, pend) == table (+) pend

\* connection.close() with an open transaction: psycopg2 discards the
\* uncommitted rows, the committed table stays as it is.
CloseUncommitted(table, pend) == table

\* ---------------------------------------------------------- create_backup
FirstBackupTime == 59   \* seconds after midnight when the first backup is made

\* datetime.now() seen by create_backup, in seconds after midnight of one day:
\* the next backup is made in the same second as the last one or in the next.
Now(bk) ==
    IF bk = <<>> THEN {FirstBackupTime}
    ELSE {bk[Len(bk)].created, bk[Len(bk)].created + 1}

\* strftime('%Y%m%d_%H%M%S')
Strftime(t) == <<"20240101", "_", (t \div 3600) % 24, (t \div 60) % 60, t % 60>>

\* f"{table_name}_backup_{...}"
BackupName(table, t) == <<table, "_backup_">> \o Strftime(t)

\* Faulty variant of CreateTableAsSelect: the table is created without rows.
CreateTableAsSelectEmpty(rows) == EmptyBag

\* CREATE TABLE backup AS SELECT * FROM table: the rows of the new table
CreateTableAsSelect(rows) == rows

\* ------------------------------------------------------------ connections
ConnIds == {1, 2}

\* connect(): the connection ids of source_conn and target_conn; the target
\* gets a connection of its own only when its configuration differs.
ConnectIds(scfg, tcfg) == <<1, IF tcfg # scfg THEN 2 ELSE 1>>

\* Faulty variant of CloseTargets: target_conn is forgotten.
CloseTargetsSourceOnly(sc, tc) == {c \in ConnIds : sc # None /\ c = sc}

\* close(): the connections whose close() method is called
CloseTargets(sc, tc) ==
    {c \in ConnIds : \/ (sc # None /\ c = sc)
                     \/ (tc # None /\ tc # sc /\ c = tc)}

\* connection.close() of psycopg2 closes an open connection and does
\* nothing on a closed one.
ClosedAfter(cl, open, targets) ==
    [c \in ConnIds |-> IF c \in targets /\ c \in open THEN cl[c] + 1 ELSE cl[c]]

\* ------------------------------------------------------------------- main
source_config == "db_config"
target_config == "db_config"

\* Faulty variant of AfterAnalyze: the backup is skipped whatever --no-backup says.
AfterAnalyzeNoBackup(a) == IF a.validate_only THEN "validate" ELSE "migrate"

\* Where main() goes after analyze_source_data()
AfterAnalyze(a) == IF a.validate_only THEN "validate"
                   ELSE IF ~a.no_backup THEN "backup" ELSE "migrate"

\* Nothing has run yet: no backup, no connection, no result.
Fresh ==
    /\ backups = <<>>
    /\ source_conn = None /\ target_conn = None
    /\ closed = [c \in ConnIds |-> 0]
    /\ conn_open = {}
    /\ close_calls = 0
    /\ pending = EmptyBag
    /\ min_ts = None /\ max_ts = None /\ current_ts = None /\ end_ts = None
    /\ total_migrated = 0 /\ batch_num = 0
    /\ records = <<>>
    /\ result = None
    /\ report = <<>>
    /\ exit_code = None
    /\ failures = 0
    /\ windows = <<>> /\ stages = <<>>
    /\ pre_count = None /\ completed = 0 /\ abort_batch = 0 /\ abort_sent = None
    /\ reads = <<>> /\ returned = <<>>

\* The state before a run, for --batch-size in sizes and a source table of at
\* most maxrows rows; runs_done process runs are counted as over.
InitWith(sizes, maxrows, runs_done) ==
    /\ unique \in BOOLEAN
    /\ run = runs_done
    /\ \E st \in TableNames, tt \in TableNames, bs \in sizes :
          /\ DefaultTable \in {st, tt}
          /\ args = [source_table |-> st, target_table |-> tt, batch_size |-> bs,
                  no_backup |-> FALSE, validate_only |-> FALSE]
    /\ \E S \in {X \in SUBSET Rows : Cardinality(X) <= maxrows}, P \in PreTables :
          db = [n \in TableNames |->
                   IF n = args.source_table THEN SetToBag(S) ELSE SetToBag(P)]
    /\ db0 = db
    /\ config = [source |-> source_config, target |-> target_config]
    /\ pc = "idle"
    /\ Fresh

Init == InitWith({DefaultBatchSize}, MaxRows, 0)

\* A new process: parse_args, HistorianMigration(db_config, db_config, ...)
Start ==
    /\ pc \in {"idle", "exited"}
    /\ run < MaxRuns
    /\ run' = run + 1
    /\ \E f \in FlagChoices :
          args' = [args EXCEPT !.no_backup = f[1], !.validate_only = f[2]]
    /\ pc' = "connect"
    /\ config' = [source |-> source_config, target |-> target_config]
    /\ source_conn' = None /\ target_conn' = None
    /\ closed' = [c \in ConnIds |-> 0]
    /\ conn_open' = {}
    /\ close_calls' = 0
    /\ pending' = EmptyBag
    /\ min_ts' = None /\ max_ts' = None /\ current_ts' = None /\ end_ts' = None
    /\ total_migrated' = 0 /\ batch_num' = 0
    /\ records' = <<>>
    /\ result' = None
    /\ report' = <<>>
    /\ exit_code' = None
    /\ windows' = <<>> /\ stages' = <<>>
    /\ pre_count' = None
    /\ reads' = <<>>
    /\ UNCHANGED <<db, db0, unique, backups, failures, completed, abort_batch,
                   abort_sent, returned>>

\* HistorianMigration.connect
Connect ==
    /\ pc = "connect"
    /\ source_conn' = ConnectIds(config.source, config.target)[1]
    /\ target_conn' = ConnectIds(config.source, config.target)[2]
    /\ conn_open' = {source_conn', target_conn'}
    /\ stages' = Append(stages, "connect")
    /\ pc' = "analyze"
    /\ UNCHANGED <<db, db0, config, unique, backups, args, run, closed, close_calls,
                   pending, locals,
                   result, report, exit_code, failures, windows, pre_count,
                   completed, abort_batch, abort_sent, reads, returned>>

\* HistorianMigration.analyze_source_data: statistics of sqlth_1_data; the
\* log line divides MIN(t_stamp) by 1000, a TypeError when the table is empty.
Analyze ==
    /\ pc = "analyze"
    /\ IF MinTs(db[DefaultTable]) = None
       THEN /\ exit_code' = 1
            /\ pc' = "close"
            /\ UNCHANGED stages
       ELSE /\ stages' = Append(stages, "analyze")
            /\ pc' = AfterAnalyze(args)
            /\ UNCHANGED exit_code
    /\ UNCHANGED <<db, db0, config, unique, backups, args, run, conns, pending, locals,
                   result, report, failures, windows, pre_count,
                   completed, abort_batch, abort_sent, reads, returned>>

\* HistorianMigration.create_backup(args.target_table)
\* CREATE TABLE raises when a table of that name exists (a backup made in the
\* same second); the exception leaves create_backup and main exits with 1.
CreateBackup ==
    /\ pc = "backup"
    /\ \E now \in Now(backups) :
          IF \E i \in 1..Len(backups) : backups[i].name = BackupName(args.target_table, now)
          THEN /\ exit_code' = 1
               /\ pc' = "close"
               /\ UNCHANGED <<db, backups, pending, stages>>
          ELSE /\ backups' = Append(backups,
                                [name |-> BackupName(args.target_table, now),
                                 rows |-> CreateTableAsSelect(Commit(db[args.target_table], pending)),
                                 created |-> now])
               /\ db' = [db EXCEPT ![args.target_table] = Commit(@, pending)]
               /\ pending' = EmptyBag
               /\ stages' = Append(stages, "backup")
               /\ pc' = "migrate"
               /\ UNCHANGED exit_code
    /\ UNCHANGED <<db0, config, unique, args, run, conns, locals, result, report,
                   failures, windows, pre_count, completed, abort_batch, abort_sent, reads, returned>>

\* HistorianMigration.migrate_all, up to the loop
MigrateAll ==
    /\ pc = "migrate"
    /\ min_ts' = MinTs(db[args.source_table])
    /\ max_ts' = MaxTs(db[args.source_table])
    /\ current_ts' = min_ts'
    /\ total_migrated' = 0
    /\ batch_num' = 0
    /\ stages' = Append(stages, "migrate")
    /\ pre_count' = Count(db[args.target_table])
    /\ pc' = "loop"
    /\ UNCHANGED <<db, db0, config, unique, backups, args, run, conns, pending, end_ts,
                   records, result, report, exit_code, failures, windows,
                   completed, abort_batch, abort_sent, reads, returned>>

\* The loop test of migrate_all; on exit migrate_all returns total_migrated.
LoopTest ==
    /\ pc = "loop"
    /\ IF LtRaises(current_ts, max_ts)
       THEN /\ exit_code' = 1
            /\ pc' = "close"
            /\ UNCHANGED <<batch_num, end_ts, result, completed, returned>>
       ELSE IF LoopCond(current_ts, max_ts)
       THEN /\ batch_num' = batch_num + 1
            /\ end_ts' = WindowEnd(current_ts, max_ts)
            /\ pc' = "batch_read"
            /\ UNCHANGED <<exit_code, result, completed, returned>>
       ELSE /\ result' = total_migrated
            /\ returned' = Append(returned, total_migrated)
            /\ completed' = completed + 1
            /\ pc' = "validate"
            /\ UNCHANGED <<exit_code, batch_num, end_ts>>
    /\ UNCHANGED <<db, db0, config, unique, backups, args, run, conns, pending, min_ts,
                   max_ts, current_ts, total_migrated, records, report, failures,
                   windows, stages, pre_count, abort_batch, abort_sent, reads>>

\* Faulty variant of BatchRead: no early return on an empty result.
BatchReadNoEarlyReturn ==
    /\ pc = "batch_read"
    /\ windows' = Append(windows, <<current_ts, end_ts>>)
    /\ \E recs \in OrderByTs(SelectWindow(db[args.source_table], current_ts, end_ts)) :
          records' = recs
    /\ pc' = "batch_insert"
    /\ UNCHANGED <<db, db0, config, unique, backups, args, run, conns, pending, min_ts,
                   max_ts, current_ts, end_ts, total_migrated, batch_num, result,
                   report, exit_code, failures, stages, pre_count, completed,
                   abort_batch, abort_sent, reads, returned>>

\* migrate_batch: the SELECT and fetchall; an empty result returns 0 at once.
BatchRead ==
    /\ pc = "batch_read"
    /\ windows' = Append(windows, <<current_ts, end_ts>>)
    /\ \E recs \in OrderByTs(SelectWindow(db[args.source_table], current_ts, end_ts)) :
          IF recs = <<>>
          THEN /\ current_ts' = end_ts
               /\ reads' = Append(reads, 0)
               /\ pc' = "loop"
               /\ UNCHANGED records
          ELSE /\ records' = recs
               /\ pc' = "batch_insert"
               /\ UNCHANGED <<current_ts, reads>>
    /\ UNCHANGED <<db, db0, config, unique, backups, args, run, conns, pending, min_ts,
                   max_ts, end_ts, total_migrated, batch_num, result, report,
                   exit_code, failures, stages, pre_count, completed, abort_batch,
                   abort_sent, returned>>

\* migrate_batch: tgt_cur.executemany(insert_query, records)
BatchInsert ==
    /\ pc = "batch_insert"
    /\ pending' = ExecuteMany(records, db[args.target_table], pending, unique)
    /\ pc' = "batch_commit"
    /\ UNCHANGED <<db, db0, config, unique, backups, args, run, conns, locals, result,
                   report, exit_code, failures, hist>>

\* migrate_batch: self.target_conn.commit(), return len(records); back in
\* migrate_all: total_migrated += migrated, current_ts = end_ts.
BatchCommit ==
    /\ pc = "batch_commit"
    /\ db' = [db EXCEPT ![args.target_table] = Commit(@, pending)]
    /\ pending' = EmptyBag
    /\ total_migrated' = total_migrated + MigrateBatchReturn(records, pending)
    /\ reads' = Append(reads, MigrateBatchReturn(records, pending))
    /\ current_ts' = end_ts
    /\ records' = <<>>
    /\ pc' = "loop"
    /\ UNCHANGED <<db0, config, unique, backups, args, run, conns, min_ts, max_ts, end_ts,
                   batch_num, result, report, exit_code, failures, windows, stages,
                   pre_count, completed, abort_batch, abort_sent, returned>>

\* if source_count == target_count
CountsMatch(source_count, target_count) == source_count = target_count

\* HistorianMigration.validate_migration; main() then leaves the try block.
Validate ==
    /\ pc = "validate"
    /\ LET src == db[args.source_table] (+) pending
           tgt == db[args.target_table] (+) pending
       IN report' = [source_count |-> Count(src),
                     target_count |-> Count(tgt),
                     counts_match |-> CountsMatch(Count(src), Count(tgt)),
                     range_match |-> <<MinTs(src), MaxTs(src)>> = <<MinTs(tgt), MaxTs(tgt)>>,
                     tags_match |-> CountDistinctTags(src) = CountDistinctTags(tgt)]
    /\ stages' = Append(stages, "validate")
    /\ exit_code' = 0
    /\ pc' = "close"
    /\ UNCHANGED <<db, db0, config, unique, backups, args, run, conns, pending, locals,
                   result, failures, windows, pre_count, completed, abort_batch, abort_sent, reads, returned>>

\* HistorianMigration.close in the finally block; closing a connection
\* discards what it has not committed.
Close ==
    /\ pc = "close"
    /\ closed' = ClosedAfter(closed, conn_open, CloseTargets(source_conn, target_conn))
    /\ conn_open' = conn_open \ CloseTargets(source_conn, target_conn)
    /\ close_calls' = close_calls + 1
    /\ db' = [db EXCEPT ![args.target_table] = CloseUncommitted(@, pending)]
    /\ pending' = EmptyBag
    /\ pc' = "exited"
    /\ UNCHANGED <<db0, config, unique, backups, args, run, source_conn, target_conn,
                   locals, result, report, exit_code, failures, hist>>

\* A database call raises (connection lost, table missing, disk full):
\* main() logs it and exits with status 1 through the finally block.
DbCalls == {"connect", "analyze", "backup", "migrate", "batch_read",
            "batch_commit", "validate"}

\* Faulty variant of DbError: an error in a batch is caught inside the loop
\* of migrate_all, which goes on with the next window.
DbErrorSwallowed ==
    /\ pc \in DbCalls
    /\ failures < MaxFailures
    /\ failures' = failures + 1
    /\ IF pc \in {"batch_read", "batch_commit"}
       THEN /\ pc' = "loop"
            /\ current_ts' = end_ts
            /\ UNCHANGED exit_code
       ELSE /\ pc' = "close"
            /\ exit_code' = 1
            /\ UNCHANGED current_ts
    /\ UNCHANGED <<db, db0, config, unique, backups, args, run, conns, pending, min_ts,
                   max_ts, end_ts, total_migrated, batch_num, records,
                   result, report, windows, stages, pre_count, completed,
                   abort_batch, abort_sent, reads, returned>>

DbError ==
    /\ pc \in DbCalls
    /\ failures < MaxFailures
    /\ failures' = failures + 1
    /\ exit_code' = 1
    /\ abort_batch' = IF pc \in {"batch_read", "batch_commit"} THEN batch_num ELSE abort_batch
    /\ abort_sent' = IF pc \in {"batch_read", "batch_commit"} THEN Count(pending) ELSE abort_sent
    /\ pc' = "close"
    /\ UNCHANGED <<db, db0, config, unique, backups, args, run, conns, pending, locals,
                   result, report, windows, stages, pre_count, completed,
                   reads, returned>>

\* executemany raises after k of the rows were sent.
ExecuteManyError ==
    /\ pc = "batch_insert"
    /\ failures < MaxFailures
    /\ \E k \in 0..(Len(records) - 1) :
          pending' = ExecuteMany(SubSeq(records, 1, k), db[args.target_table], pending, unique)
    /\ failures' = failures + 1
    /\ exit_code' = 1
    /\ abort_batch' = batch_num
    /\ abort_sent' = Count(pending')
    /\ pc' = "close"
    /\ UNCHANGED <<db, db0, config, unique, backups, args, run, conns, locals, result,
                   report, windows, stages, pre_count, completed, reads, returned>>

Next ==
    \/ Start
    \/ Connect
    \/ Analyze
    \/ CreateBackup
    \/ MigrateAll
    \/ LoopTest
    \/ BatchRead
    \/ BatchInsert
    \/ BatchCommit
    \/ Validate
    \/ Close
    \/ DbError
    \/ ExecuteManyError

Spec == Init /\ [][Next]_vars

\* ------------------------------------------- HistorianMigration as an object
\* connect() and close() called directly on a HistorianMigration built with
\* any two configurations; close() may come before connect(), after a failed
\* connect() and any number of times.
Configs == {"historian", "timescale", "replica"}

rest == <<db, db0, unique, backups, args, run, pending, locals, result, report,
          exit_code, failures, hist>>

InitConn ==
    /\ config \in [source : Configs, target : Configs]
    /\ unique = TRUE
    /\ args = [source_table |-> DefaultTable, target_table |-> DefaultTable,
               batch_size |-> DefaultBatchSize,
               no_backup |-> FALSE, validate_only |-> FALSE]
    /\ db = [n \in TableNames |-> EmptyBag]
    /\ db0 = db
    /\ run = 0
    /\ pc = "new"
    /\ Fresh

\* connect() returns: both psycopg2.connect calls succeeded
ApiConnect ==
    /\ pc = "new"
    /\ source_conn' = ConnectIds(config.source, config.target)[1]
    /\ target_conn' = ConnectIds(config.source, config.target)[2]
    /\ conn_open' = {source_conn', target_conn'}
    /\ pc' = "connected"
    /\ UNCHANGED <<config, closed, close_calls, rest>>

\* connect() raises: the first psycopg2.connect fails and nothing is assigned,
\* or the second one (made when the configurations differ) fails after
\* source_conn was assigned.
ApiConnectFails ==
    /\ pc = "new"
    /\ \/ UNCHANGED <<source_conn, target_conn, conn_open>>
       \/ /\ config.target # config.source
          /\ source_conn' = ConnectIds(config.source, config.target)[1]
          /\ conn_open' = {source_conn'}
          /\ UNCHANGED target_conn
    /\ pc' = "connect_failed"
    /\ UNCHANGED <<config, closed, close_calls, rest>>

\* close()
ApiClose ==
    /\ pc \in {"new", "connected", "connect_failed"}
    /\ close_calls < MaxCloses
    /\ closed' = ClosedAfter(closed, conn_open, CloseTargets(source_conn, target_conn))
    /\ conn_open' = conn_open \ CloseTargets(source_conn, target_conn)
    /\ close_calls' = close_calls + 1
    /\ UNCHANGED <<config, pc, source_conn, target_conn, rest>>

NextConn ==
    \/ ApiConnect
    \/ ApiConnectFails
    \/ ApiClose

SpecConn == InitConn /\ [][NextConn]_vars

\* ------------------------------------------------ main with any --batch-size
InitWidth == InitWith(BatchSizes, WidthRows, 0)

SpecWidth == InitWidth /\ [][Next]_vars

\* ------------------------------------------------- one run that keeps going
\* The last process run of a behaviour. The program is sequential and every
\* statement of the window loop is a blocking call that returns or raises, so
\* a step of the loop that can be taken is taken.
InitLive == InitWith({DefaultBatchSize}, MaxRows, MaxRuns - 1)

SpecLive ==
    /\ InitLive /\ [][Next]_vars
    /\ WF_vars(LoopTest) /\ WF_vars(BatchRead)
    /\ WF_vars(BatchInsert) /\ WF_vars(BatchCommit)

\* --------------------------------------------------------------- properties
Range(s) == {s[i] : i \in DOMAIN s}

IsPrefix(s, t) == Len(s) <= Len(t) /\ \A i \in DOMAIN s : s[i] = t[i]

\* The windows of the run that hold timestamp t
WindowsHolding(t) == {i \in DOMAIN windows : windows[i][1] <= t /\ t < windows[i][2]}

\* migrate_all has returned in the current run
MigrateAllReturned == result # None

SourceTable == db[args.source_table]
TargetTable == db[args.target_table]

\* ---------------------------------------------------------------------- C1
\* C1: when migrate_all has returned, every row of the (non-empty) source
\* table has its t_stamp in exactly one window [start_ts, end_ts) that was
\* handed to migrate_batch, the rows at MAX(t_stamp) included.
C1_EveryRecordInOneWindow ==
    MigrateAllReturned =>
        \A r \in BagToSet(SourceTable) : Cardinality(WindowsHolding(t_stamp(r))) = 1

\* ---------------------------------------------------------------------- C2
\* C2: round trip: when migrate_all has returned and the target table was
\* empty when it was entered, every row of the source table is in the target.
C2_RoundTrip ==
    (MigrateAllReturned /\ pre_count = 0) =>
        \A r \in BagToSet(SourceTable) : BagIn(r, TargetTable)

\* ---------------------------------------------------------------------- C5
\* C5: a source table of exactly one row gives exactly one window, a return
\* value of 1, and that row in the target.
C5_SingleRecord ==
    (/\ MigrateAllReturned
     /\ args.source_table # args.target_table
     /\ Count(SourceTable) = 1) =>
        /\ Len(windows) = 1
        /\ result = 1
        /\ \A r \in BagToSet(SourceTable) : BagIn(r, TargetTable)

\* ---------------------------------------------------------------------- C6
\* C6: with rows at 1000, 90000000 and 90000001 migrate_all processes two
\* windows, the first holding 1000, the second holding 90000000 and
\* 90000001, and returns 3.
ScenarioRows == {<<1, 1000>>, <<1, 90000000>>, <<1, 90000001>>}

C6_Scenario ==
    (/\ MigrateAllReturned
     /\ run = 1
     /\ args.source_table # args.target_table
     /\ db0[args.source_table] = SetToBag(ScenarioRows)) =>
        /\ Len(windows) = 2
        /\ WindowsHolding(1000) = {1}
        /\ WindowsHolding(90000000) = {2}
        /\ WindowsHolding(90000001) = {2}
        /\ result = 3

\* ---------------------------------------------------------------------- C7
\* C7: with an empty source table migrate_all returns 0 without raising,
\* without a window and without a write: once main() has entered migrate_all
\* and no database call failed, it is past migrate_all with result 0.
C7_EmptySourceReturnsZero ==
    (/\ "migrate" \in Range(stages)
     /\ Count(SourceTable) = 0
     /\ failures = 0
     /\ pc \in {"validate", "close", "exited"}) =>
        /\ result = 0
        /\ windows = <<>>
        /\ db = db0

\* ---------------------------------------------------------------------- C8
\* C8: the windows of a completed migrate_all start at MIN(t_stamp), each
\* starts where the one before ended, each has start_ts < end_ts, and every
\* timestamp of [MIN(t_stamp), MAX(t_stamp)] lies in exactly one of them.
WindowsContiguous ==
    /\ windows # <<>> => windows[1][1] = min_ts
    /\ \A i \in DOMAIN windows : windows[i][1] < windows[i][2]
    /\ \A i \in DOMAIN windows : i > 1 => windows[i][1] = windows[i - 1][2]

C8_WindowsTile ==
    MigrateAllReturned =>
        /\ WindowsContiguous
        /\ \A t \in TStamps \cup {min_ts, max_ts} :
              (min_ts <= t /\ t <= max_ts) => Cardinality(WindowsHolding(t)) = 1

\* ---------------------------------------------------------------------- C3
\* C3: with a unique constraint on the target, once one migrate_all has
\* returned no later step of any run changes the rows of the target table:
\* a second migrate_all adds nothing.
C3_SecondRunAddsNothing ==
    [][(unique /\ completed >= 1) =>
          db'[args.target_table] = db[args.target_table]]_vars

\* A second migrate_all returned after reading rows it had already copied
\* into a separate target table.
C3_Witness ==
    /\ unique
    /\ completed = 2
    /\ result > 0
    /\ args.source_table # args.target_table
    /\ Count(TargetTable) > Count(db0[args.target_table])

\* ---------------------------------------------------------------------- C4
\* The target table one migrate_all leaves when nothing fails, computed window
\* by window as migrate_all and migrate_batch do; src is read from the
\* target itself when both names are the same table.
RECURSIVE MigrateWindows(_, _, _, _, _, _)
MigrateWindows(src, tgt, same, cur, hi, uniq) ==
    IF ~LoopCond(cur, hi) THEN tgt
    ELSE LET e == WindowEnd(cur, hi)
             from == IF same THEN tgt ELSE src
             recs == CHOOSE q \in OrderByTs(SelectWindow(from, cur, e)) : TRUE
         IN MigrateWindows(src, tgt (+) ExecuteMany(recs, tgt, EmptyBag, uniq),
                           same, e, hi, uniq)

UninterruptedRun(d, a, uniq) ==
    LET src == d[a.source_table]
        tgt == d[a.target_table]
    IN IF MinTs(src) = None THEN tgt
       ELSE MigrateWindows(src, tgt, a.source_table = a.target_table,
                           MinTs(src), MaxTs(src), uniq)

SameCounts(t1, t2) ==
    /\ Count(t1) = Count(t2)
    /\ CountDistinctTags(t1) = CountDistinctTags(t2)

\* C4 as stated: after an earlier run died in a batch, a migrate_all that
\* returns leaves the target with the row count and distinct tag count of a
\* single uninterrupted run on the initial tables.
C4_RetryEqualsUninterrupted ==
    (abort_batch > 0 /\ MigrateAllReturned) =>
        SameCounts(TargetTable, UninterruptedRun(db0, args, unique))

\* C4 as amended: the same, provided the target enforces a unique constraint.
C4_RetryEqualsUninterruptedUnique ==
    (unique /\ abort_batch > 0 /\ MigrateAllReturned) =>
        SameCounts(TargetTable, UninterruptedRun(db0, args, unique))

\* The first run died in window 2 of 3 with window 1 committed and one of
\* the two rows of window 2 sent; the second run went through all three
\* windows into a separate target.
C4_Witness ==
    /\ unique
    /\ run = 2
    /\ abort_batch = 2
    /\ abort_sent = 1
    /\ MigrateAllReturned
    /\ Len(windows) = 3
    /\ args.source_table # args.target_table
    /\ Count(TargetTable) = Count(db0[args.target_table]) + 3

\* ---------------------------------------------------------------------- C9
\* C9: validate_migration reports matching counts exactly when a full
\* migration has completed, no run was interrupted in a batch, and the target
\* held no rows before the first run.
C9_CountMatchIffFullMigration ==
    report # <<>> =>
        (report.counts_match <=>
            (completed >= 1 /\ abort_batch = 0 /\ Count(db0[args.target_table]) = 0))

\* --------------------------------------------------------------------- C10
ExpectedStages(a) ==
    IF a.validate_only THEN <<"connect", "analyze", "validate">>
    ELSE IF a.no_backup THEN <<"connect", "analyze", "migrate", "validate">>
    ELSE <<"connect", "analyze", "backup", "migrate", "validate">>

MigrationPcs == {"migrate", "loop", "batch_read", "batch_insert", "batch_commit"}

\* C10: in every run the stages executed so far are a prefix of connect,
\* analyze, [backup,] migrate, validate as the flags select them, a run that
\* exits with status 0 executed all of them, the process is inside the
\* migration or holds uncommitted rows only after the stages before it
\* (the backup included unless --no-backup), and never with --validate-only.
C10_StageOrder ==
    run >= 1 =>
        /\ IsPrefix(stages, ExpectedStages(args))
        /\ exit_code = 0 => stages = ExpectedStages(args)
        /\ (pc \in MigrationPcs \/ pending # EmptyBag) =>
              /\ ~args.validate_only
              /\ IsPrefix(<<"connect", "analyze">>, stages)
              /\ ~args.no_backup => ("backup" \in Range(stages) /\ backups # <<>>)
        /\ args.validate_only => (windows = <<>> /\ result = None)

\* A run without flags backed up, wrote rows to the target and validated.
C10_Witness ==
    /\ exit_code = 0
    /\ stages = <<"connect", "analyze", "backup", "migrate", "validate">>
    /\ Count(TargetTable) > pre_count

\* --------------------------------------------------------------------- C11
\* C11: a step in which a stage of main() fails (a database call raises, or
\* the code itself raises) sets exit status 1 and goes to the finally block
\* without touching the committed tables; from there the process only exits:
\* no further window is read, nothing is rolled back, the status stays 1.
\* A failure in connect, analyze or backup comes before any window.
C11_FatalErrorAborts ==
    [][/\ (exit_code = None /\ exit_code' = 1) =>
             /\ pc' = "close"
             /\ db' = db
             /\ windows' = windows
             /\ pc \in {"connect", "analyze", "backup"} => windows = <<>>
       /\ failures' > failures => (exit_code = None /\ exit_code' = 1)
       /\ pc = "close" =>
             /\ pc' = "exited"
             /\ db' = db
             /\ windows' = windows
             /\ exit_code' = exit_code]_vars

\* A run died in window 2 with windows still to go; the rows of window 1 are
\* in the separate target and the exit status is 1.
C11_Witness ==
    /\ pc = "exited"
    /\ exit_code = 1
    /\ result = None
    /\ batch_num = 2
    /\ abort_batch = 2
    /\ end_ts < max_ts
    /\ args.source_table # args.target_table
    /\ Count(TargetTable) > pre_count

\* --------------------------------------------------------------------- C12
\* C12: a migrate_batch call whose window holds no source row returns 0 to
\* the loop at once: no executemany, no commit, the committed tables, the
\* open transaction and the running total are as before.
C12_EmptyWindowNoWrite ==
    [][(/\ pc = "batch_read"
        /\ BagToSet(SelectWindow(SourceTable, current_ts, end_ts)) = {}
        /\ failures' = failures) =>
            /\ pc' = "loop"
            /\ db' = db
            /\ pending' = pending
            /\ total_migrated' = total_migrated
            /\ current_ts' = end_ts]_vars

\* Back in the loop after an empty window that followed a window with rows.
C12_Witness ==
    /\ pc = "loop"
    /\ Len(windows) >= 2
    /\ current_ts = windows[Len(windows)][2]
    /\ BagToSet(SelectWindow(SourceTable, windows[Len(windows)][1],
                             windows[Len(windows)][2])) = {}
    /\ total_migrated > 0

\* --------------------------------------------------------------------- C13
\* The connections that were ever established.
Established == conn_open \cup {c \in ConnIds : closed[c] > 0}

\* C13: connect() establishes one connection per distinct configuration and
\* uses a single connection for source and target when the configurations are
\* identical; close() can be called before connect(), after a failed connect()
\* and repeatedly: every call leaves no established connection open, closes
\* each connection that was still open exactly once and no connection is ever
\* closed a second time.
C13_ConnectionLifecycle ==
    /\ [](/\ pc = "connected" =>
               /\ source_conn # None /\ target_conn # None
               /\ (target_conn = source_conn) <=> (config.target = config.source)
               /\ Cardinality(Established) = Cardinality({config.source, config.target})
          /\ \A c \in ConnIds : closed[c] <= 1
          /\ Established \subseteq {source_conn, target_conn})
    /\ [][close_calls' > close_calls =>
             /\ conn_open' = {}
             /\ \A c \in ConnIds :
                   closed'[c] = IF c \in conn_open THEN 1 ELSE closed[c]]_vars

\* Two distinct configurations, connected, close() called three times (once
\* before connect()): both connections closed exactly once.
C13_Witness ==
    /\ pc = "connected" /\ config.source # config.target
    /\ close_calls = MaxCloses
    /\ conn_open = {}
    /\ closed = [c \in ConnIds |-> 1]
    /\ source_conn # target_conn

\* --------------------------------------------------------------------- C14
\* C14: every window processed by migrate_all except possibly the last has
\* exactly the width the caller configured (the batch_size given to the
\* HistorianMigration, the only width-like setting a caller has), and the last
\* window is no wider.
C14_WindowWidthConfigured ==
    \A i \in 1..Len(windows) :
        /\ windows[i][2] - windows[i][1] <= args.batch_size
        /\ i < Len(windows) => windows[i][2] - windows[i][1] = args.batch_size

\* --------------------------------------------------------------------- C15
\* C15: create_backup makes a table named <table>_backup_<YYYYMMDD_HHMMSS>
\* whose rows are the rows of the backed-up table at that moment, and no later
\* step of any stage or run changes, renames or removes a backup table.
C15_BackupImmutable ==
    [][/\ Len(backups') >= Len(backups)
       /\ \A i \in 1..Len(backups) : backups'[i] = backups[i]
       /\ Len(backups') > Len(backups) =>
             /\ pc = "backup"
             /\ Len(backups') = Len(backups) + 1
             /\ backups'[Len(backups')].rows = db'[args.target_table]
             /\ db'[args.target_table] = db[args.target_table]
             /\ \E t \in 0..86399 :
                   backups'[Len(backups')].name =
                       <<args.target_table, "_backup_", "20240101", "_",
                         t \div 3600, (t % 3600) \div 60, t % 60>>
             /\ \A i \in 1..Len(backups) :
                   backups[i].name # backups'[Len(backups')].name]_vars

\* A backup of a non-empty target, made before a run that failed and a second
\* run that completed and grew the target.
C15_Witness ==
    /\ Len(backups) >= 1
    /\ Count(backups[1].rows) > 0
    /\ completed >= 1 /\ failures >= 1 /\ run = 2 /\ pc = "exited"
    /\ Count(TargetTable) > Count(backups[1].rows)

\* --------------------------------------------------------------------- C16
\* C16: no step of any stage, aborted run or re-run updates or deletes a row:
\* every table keeps every row it has (the target only grows), the source table
\* is unchanged when it is not the target table, and analyze_source_data and
\* validate_migration change no table, backup or open transaction.
C16_NoUpdateNoDelete ==
    [][/\ \A n \in TableNames : \A r \in Rows :
             CopiesIn(r, db'[n]) >= CopiesIn(r, db[n])
       /\ args.source_table # args.target_table =>
             db'[args.source_table] = db[args.source_table]
       /\ pc \in {"analyze", "validate"} =>
             /\ db' = db
             /\ backups' = backups
             /\ pending' = pending]_vars

\* Distinct tables, a target with a row before the first run, one aborted run
\* and one completed run: the target grew and the source is as it was.
C16_Witness ==
    /\ pc = "exited" /\ run = 2 /\ failures >= 1 /\ completed >= 1
    /\ args.source_table # args.target_table
    /\ "validate" \in Range(stages)
    /\ db0[args.target_table] # EmptyBag
    /\ Count(TargetTable) > Count(db0[args.target_table])
    /\ SourceTable = db0[args.source_table]

\* --------------------------------------------------------------------- C17
\* C17: the committed target table changes only at the commit of a batch, and
\* then by all rows that batch newly wrote at once; a failure during or after
\* the batched insert, and the close() that follows it, commit nothing, so no
\* reader or later run sees part of a batch (source and target share one
\* connection in every run of main).
C17_BatchAtomic ==
    [][/\ db' # db =>
             /\ pc = "batch_commit"
             /\ failures' = failures
             /\ db' = [db EXCEPT ![args.target_table] =
                          @ (+) ExecuteMany(records, @, EmptyBag, unique)]
       /\ failures' > failures => db' = db
       /\ pc = "close" => (db' = db /\ pending' = EmptyBag)]_vars

\* executemany failed after one of the two rows of the second batch was sent,
\* on the connection shared by source and target; the process has exited and
\* the target holds the first batch only.
C17_Witness ==
    /\ pc = "exited" /\ exit_code = 1
    /\ source_conn = target_conn
    /\ abort_batch = 2 /\ abort_sent = 1 /\ Len(records) = 2
    /\ pending = EmptyBag
    /\ Count(TargetTable) = pre_count + total_migrated
    /\ total_migrated > 0

\* --------------------------------------------------------------------- C18
RECURSIVE Sum(_)
Sum(q) == IF q = <<>> THEN 0 ELSE Head(q) + Sum(Tail(q))

\* Each migrate_batch result is the number of source rows its window holds when
\* it is read, whatever was inserted, and migrate_all returns their sum.
ReturnIsRowsRead ==
    /\ [](MigrateAllReturned =>
             /\ Len(reads) = Len(windows)
             /\ result = Sum(reads))
    /\ [][Len(reads') > Len(reads) =>
             /\ Len(reads') = Len(reads) + 1
             /\ reads'[Len(reads')] =
                   Count(SelectWindow(db[args.source_table], current_ts, end_ts))
             /\ total_migrated' = total_migrated + reads'[Len(reads')]]_vars

\* C18 as stated: migrate_all returns the sum of the migrate_batch results, each
\* the number of source rows read in its window regardless of how many were
\* inserted, and every later run returns the same total as the first.
C18_ReturnCountsRowsRead ==
    /\ ReturnIsRowsRead
    /\ [](\A i \in 1..Len(returned) : returned[i] = returned[1])

\* C18 when the runs leave the source table as it was (the target enforces a
\* uniqueness constraint, or source and target are distinct tables): as above.
C18_ReturnCountsRowsReadSourceKept ==
    /\ ReturnIsRowsRead
    /\ []((unique \/ args.source_table # args.target_table) =>
             \A i \in 1..Len(returned) : returned[i] = returned[1])

\* The second run over a migrated target with a uniqueness constraint has
\* returned: it inserted nothing and returns the first run's non-zero total.
C18_Witness ==
    /\ MigrateAllReturned /\ Len(returned) = 2 /\ unique
    /\ args.source_table # args.target_table
    /\ Len(reads) >= 2
    /\ result > 0 /\ result = returned[1]
    /\ Count(TargetTable) = pre_count

\* --------------------------------------------------------------------- C19
InLoop == pc \in {"loop", "batch_read", "batch_insert", "batch_commit"}

\* C19: on a non-empty source the window loop of migrate_all terminates: the
\* window start strictly increases on every iteration and never exceeds the
\* maximum timestamp, the loop is always left, and when no batch raised it is
\* left after exactly ceil((max - min) / 86400000) iterations.
C19_LoopTerminates ==
    /\ []((InLoop /\ min_ts # None) => (min_ts <= current_ts /\ current_ts <= max_ts))
    /\ []((MigrateAllReturned /\ min_ts # None) =>
             /\ current_ts = max_ts
             /\ batch_num = (max_ts - min_ts + 86400000 - 1) \div 86400000)
    /\ [][(InLoop /\ min_ts # None) =>
             /\ current_ts' >= current_ts
             /\ (pc # "loop" /\ pc' = "loop") => current_ts' > current_ts]_vars
    /\ InLoop ~> ~InLoop

\* migrate_all returned after three iterations without an error in the run.
C19_Witness ==
    /\ MigrateAllReturned /\ batch_num = 3 /\ exit_code = None
    /\ Len(windows) = 3 /\ current_ts = max_ts
    /\ max_ts - min_ts > 2 * 86400000

====
